---- MODULE Spec2Model ----
(***************************************************************************)
(* delete-old-files (src/main.go): one run of the command line tool.       *)
(* The run compiles the pattern, lists the directory oldest first, filters *)
(* by pattern (skipping its own binary), applies the --number policy,      *)
(* prints the selection, asks for confirmation and removes the files.      *)
(***************************************************************************)
EXTENDS Integers, Sequences, FiniteSets, TLC

(***************************************************************************)
(* Bounds of the model.                                                    *)
(***************************************************************************)
\* largest number of entries in the target directory
MaxFiles == 2
\* modification times are 1..MaxTime (equal times are ties)
MaxTime == 2
\* width of Go's int in the model (64 in the build); values wrap modulo 2^IntBits
IntBits == 2

AllNames == <<"a.log", "b.log", "c.log", "d.log", "e.log", "f.log">>
Names == {AllNames[i] : i \in 1..MaxFiles}
Times == 1..MaxTime
\* an entry is a regular file, a directory, or a file whose Info() fails
Kinds == {"file", "dir", "noinfo"}

IntMin == -(2^(IntBits - 1))
IntMax == 2^(IntBits - 1) - 1
Ints == IntMin..IntMax
\* two's complement wrap-around of Go's int arithmetic
Wrap(x) == ((x - IntMin) % (2^IntBits)) + IntMin

\* directory contents in the order ReadDir yields them; names are distinct
Dirs ==
  UNION {[1..k -> Kinds \X Times] : k \in 0..MaxFiles}
Entry(i, kt) == [name |-> AllNames[i], kind |-> kt[1], mtime |-> kt[2]]
DirOf(f) == [i \in DOMAIN f |-> Entry(i, f[i])]

\* a pattern is either rejected by regexp.Compile or denotes the names it matches
Patterns ==
  {[ok |-> FALSE, lang |-> {}]} \cup {[ok |-> TRUE, lang |-> L] : L \in SUBSET Names}

\* os.Args[0] as a slash separated list of components
Argv0s == {<<".", AllNames[1]>>, <<"usr", "bin", "delete-old-files">>}

Args ==
  [pattern : Patterns, number : Ints, dryRun : BOOLEAN, yes : BOOLEAN, argv0 : Argv0s]

\* what is at --path: a readable directory, or something that makes os.Open,
\* Stat, IsDir or ReadDir fail
DirStatus == {"ok", "openfail", "statfail", "notdir", "readfail"}

NoErr == "nil"

VARIABLES
  dir,          \* the directory on disk
  pathStatus,   \* what is at --path
  dir0,         \* the directory when the run started
  args,         \* parsed command line
  pc,           \* position in app.Action / main
  dirStatus,    \* what listByTime met when opening the directory
  fileNameSelf, \* path.Base(os.Args[0])
  arrFileInfo,  \* result of listByTime
  arrMatch,     \* the working list of app.Action
  allMatch,     \* arrMatch as the pattern filter left it
  selection,    \* arrMatch as the count selector left it
  presented,    \* printResult was called
  prompted,     \* the Yes/No/Pick prompt was shown
  ans,          \* answer to the Yes/No/Pick prompt
  arrAns,       \* answer to the multi-select prompt
  confirm,      \* local confirm
  idx,          \* position of the removal loop in arrMatch (1-based)
  hasErr,       \* local hasErr
  attempted,    \* names os.Remove was called on, in call order
  failed,       \* names whose os.Remove returned an error
  msg,          \* the informational line printed on stdout
  err,          \* error returned by app.Action
  exitCode      \* exit status of the process, -1 while running

vars ==
  <<dir, pathStatus, dir0, args, pc, dirStatus, fileNameSelf, arrFileInfo, arrMatch, allMatch,
    selection, presented, prompted, ans, arrAns, confirm, idx, hasErr, attempted,
    failed, msg, err, exitCode>>

(***************************************************************************)
(* Pure helpers.                                                           *)
(***************************************************************************)
Min(a, b) == IF a < b THEN a ELSE b

NamesOf(s) == [i \in DOMAIN s |-> s[i].name]
NameSet(s) == {s[i].name : i \in DOMAIN s}

\* path.Base: the last component
PathBase(p) == p[Len(p)]

\* os.FileInfo of an entry (name and modification time)
InfoOf(e) == [name |-> e.name, mtime |-> e.mtime]

\* sortByModtime.Less
Less(a, b) == a.mtime < b.mtime

\* sort.Sort on short slices is an insertion sort driven by Less
RECURSIVE InsertLeft(_, _)
InsertLeft(s, x) ==
  IF s = <<>> THEN <<x>>
  ELSE IF Less(x, s[Len(s)])
       THEN Append(InsertLeft(SubSeq(s, 1, Len(s) - 1), x), s[Len(s)])
       ELSE Append(s, x)

RECURSIVE SortByModtime(_)
SortByModtime(s) ==
  IF s = <<>> THEN <<>>
  ELSE InsertLeft(SortByModtime(SubSeq(s, 1, Len(s) - 1)), s[Len(s)])

\* the loop of listByTime: directories and entries whose Info() fails are skipped
KeepEntry(e) == e.kind = "file"

RECURSIVE CollectInfo(_)
CollectInfo(d) ==
  IF d = <<>> THEN <<>>
  ELSE LET front == CollectInfo(SubSeq(d, 1, Len(d) - 1))
           e == d[Len(d)]
       IN IF KeepEntry(e) THEN Append(front, InfoOf(e)) ELSE front

ListByTime(d) == SortByModtime(CollectInfo(d))

\* the pattern filter loop of app.Action
MatchesNoSelfCheck(fi, re, self) == fi.name \in re.lang
Matches(fi, re, self) == fi.name # self /\ fi.name \in re.lang

RECURSIVE FilterMatch(_, _, _)
FilterMatch(s, re, self) ==
  IF s = <<>> THEN <<>>
  ELSE LET front == FilterMatch(SubSeq(s, 1, Len(s) - 1), re, self)
       IN IF Matches(s[Len(s)], re, self) THEN Append(front, s[Len(s)]) ELSE front

\* arrMatch[:k]: a negative bound is a run-time panic
Slice(s, k) ==
  IF k < 0 \/ k > Len(s)
  THEN [status |-> "panic", arr |-> <<>>]
  ELSE [status |-> "sel", arr |-> SubSeq(s, 1, k)]

\* the count selector of app.Action; -number and len+number are int arithmetic
CountSelectNewest(s, n) ==
  IF n > 0
  THEN IF Len(s) > n
       THEN [status |-> "sel", arr |-> SubSeq(s, Len(s) - n + 1, Len(s))]
       ELSE [status |-> "sel", arr |-> s]
  ELSE IF n < 0
       THEN IF Len(s) > Wrap(-n)
            THEN Slice(s, Wrap(Len(s) + n))
            ELSE [status |-> "kept", arr |-> <<>>]
       ELSE [status |-> "sel", arr |-> s]
CountSelectOffByOne(s, n) ==
  IF n > 0
  THEN IF Len(s) > n THEN Slice(s, n) ELSE [status |-> "sel", arr |-> s]
  ELSE IF n < 0
       THEN IF Len(s) > Wrap(-n)
            THEN Slice(s, Wrap(Len(s) + n + 1))
            ELSE [status |-> "kept", arr |-> <<>>]
       ELSE [status |-> "sel", arr |-> s]
CountSelect(s, n) ==
  IF n > 0
  THEN IF Len(s) > n THEN Slice(s, n) ELSE [status |-> "sel", arr |-> s]
  ELSE IF n < 0
       THEN IF Len(s) > Wrap(-n)
            THEN Slice(s, Wrap(Len(s) + n))
            ELSE [status |-> "kept", arr |-> <<>>]
       ELSE [status |-> "sel", arr |-> s]

\* the dry-run test, made before the yes flag is looked at
DryRunUnlessYes(a) == a.dryRun /\ ~a.yes
DryRunExit(a) == a.dryRun

\* mapSel and arrSel of the Pick branch
MapSel(s) == [nm \in NameSet(s) |-> CHOOSE i \in DOMAIN s :
                 s[i].name = nm /\ \A j \in DOMAIN s : s[j].name = nm => j <= i]
ArrSel(s) == NamesOf(s)

\* what the multi-select prompt hands back: the checked options, in option order
RECURSIVE Checked(_, _)
Checked(opts, I) ==
  IF opts = <<>> THEN <<>>
  ELSE LET front == Checked(SubSeq(opts, 1, Len(opts) - 1), I)
       IN IF Len(opts) \in I THEN Append(front, opts[Len(opts)]) ELSE front
MultiSelectAnswers(opts) == {Checked(opts, I) : I \in SUBSET (1..Len(opts))}

\* the new arrMatch built from the multi-select answer
PickSetReversed(s, answers) ==
  [i \in DOMAIN answers |-> s[MapSel(s)[answers[Len(answers) + 1 - i]]]]
PickSet(s, answers) == [i \in DOMAIN answers |-> s[MapSel(s)[answers[i]]]]

\* confirm after Pick
ConfirmPickAlways(s) == TRUE
ConfirmPick(s) == Len(s) > 0

\* the removal loop goes on to the next file whatever os.Remove returned
NextIdxStopOnError(i, ok, n) == IF ok THEN i + 1 ELSE n + 1
NextIdx(i, ok, n) == i + 1

\* the directory after a successful os.Remove of name nm
RemoveEntry(d, nm) == SelectSeq(d, LAMBDA e : e.name # nm)

(***************************************************************************)
(* The run.                                                                *)
(***************************************************************************)
Init ==
  /\ pathStatus \in DirStatus
  /\ dir \in IF pathStatus = "ok" THEN {DirOf(f) : f \in Dirs} ELSE {<<>>}
  /\ dir0 = dir
  /\ args \in Args
  /\ pc = "compile"
  /\ dirStatus = "unknown"
  /\ fileNameSelf = ""
  /\ arrFileInfo = <<>>
  /\ arrMatch = <<>>
  /\ allMatch = <<>>
  /\ selection = <<>>
  /\ presented = FALSE
  /\ prompted = FALSE
  /\ ans = "No"
  /\ arrAns = <<>>
  /\ confirm = FALSE
  /\ idx = 0
  /\ hasErr = FALSE
  /\ attempted = <<>>
  /\ failed = {}
  /\ msg = ""
  /\ err = NoErr
  /\ exitCode = -1

\* a panic ends the process at once with status 2
Panic ==
  /\ pc' = "done"
  /\ exitCode' = 2

\* regexp.Compile
Compile ==
  /\ pc = "compile"
  /\ IF args.pattern.ok
     THEN pc' = "list" /\ err' = err
     ELSE pc' = "exit" /\ err' = "failed to compile pattern"
  /\ UNCHANGED <<dir, pathStatus, dir0, args, dirStatus, fileNameSelf, arrFileInfo, arrMatch,
                 allMatch, selection, presented, prompted, ans, arrAns, confirm, idx,
                 hasErr, attempted, failed, msg, exitCode>>

\* fileNameSelf and listByTime
List ==
  /\ pc = "list"
  /\ fileNameSelf' = PathBase(args.argv0)
  /\ LET st == pathStatus
     IN
       /\ dirStatus' = st
       /\ CASE st = "ok" ->
                 /\ arrFileInfo' = ListByTime(dir)
                 /\ pc' = "filter"
                 /\ UNCHANGED <<err, exitCode>>
            [] st = "statfail" ->
                 /\ Panic
                 /\ UNCHANGED <<arrFileInfo, err>>
            [] st = "openfail" ->
                 /\ err' = "failed to open directory"
                 /\ pc' = "exit"
                 /\ UNCHANGED <<arrFileInfo, exitCode>>
            [] st = "notdir" ->
                 /\ err' = "given path is not a directory"
                 /\ pc' = "exit"
                 /\ UNCHANGED <<arrFileInfo, exitCode>>
            [] st = "readfail" ->
                 /\ err' = "failed to read entries in directory"
                 /\ pc' = "exit"
                 /\ UNCHANGED <<arrFileInfo, exitCode>>
  /\ UNCHANGED <<dir, pathStatus, dir0, args, arrMatch, allMatch, selection, presented, prompted,
                 ans, arrAns, confirm, idx, hasErr, attempted, failed, msg>>

\* the pattern filter
Filter ==
  /\ pc = "filter"
  /\ arrMatch' = FilterMatch(arrFileInfo, args.pattern, fileNameSelf)
  /\ allMatch' = arrMatch'
  /\ IF Len(arrMatch') = 0
     THEN msg' = "No matching files found" /\ pc' = "exit"
     ELSE msg' = msg /\ pc' = "select"
  /\ UNCHANGED <<dir, pathStatus, dir0, args, dirStatus, fileNameSelf, arrFileInfo, selection,
                 presented, prompted, ans, arrAns, confirm, idx, hasErr, attempted,
                 failed, err, exitCode>>

\* the count selector
Select ==
  /\ pc = "select"
  /\ LET r == CountSelect(arrMatch, args.number)
     IN CASE r.status = "sel" ->
               /\ arrMatch' = r.arr
               /\ selection' = r.arr
               /\ pc' = "present"
               /\ UNCHANGED <<msg, exitCode>>
          [] r.status = "kept" ->
               /\ msg' = "All matching files will be kept due to given number flag"
               /\ pc' = "exit"
               /\ UNCHANGED <<arrMatch, selection, exitCode>>
          [] r.status = "panic" ->
               /\ Panic
               /\ UNCHANGED <<arrMatch, selection, msg>>
  /\ UNCHANGED <<dir, pathStatus, dir0, args, dirStatus, fileNameSelf, arrFileInfo, allMatch,
                 presented, prompted, ans, arrAns, confirm, idx, hasErr, attempted,
                 failed, err>>

\* printResult and the dry-run exit
Present ==
  /\ pc = "present"
  /\ presented' = TRUE
  /\ pc' = IF DryRunExit(args) THEN "exit" ELSE "confirm"
  /\ UNCHANGED <<dir, pathStatus, dir0, args, dirStatus, fileNameSelf, arrFileInfo, arrMatch,
                 allMatch, selection, prompted, ans, arrAns, confirm, idx, hasErr,
                 attempted, failed, msg, err, exitCode>>

\* where the run goes once confirm is known
AfterConfirm(c) ==
  IF c
  THEN pc' = "remove" /\ idx' = 1 /\ msg' = msg
  ELSE pc' = "exit" /\ idx' = idx /\ msg' = "Aborted"

\* --yes: no prompt
ConfirmYesFlag ==
  /\ pc = "confirm"
  /\ args.yes
  /\ confirm' = TRUE
  /\ AfterConfirm(confirm')
  /\ UNCHANGED <<dir, pathStatus, dir0, args, dirStatus, fileNameSelf, arrFileInfo, arrMatch,
                 allMatch, selection, presented, prompted, ans, arrAns, hasErr,
                 attempted, failed, err, exitCode>>

\* the prompt answered Yes or No (No is also what a failed prompt leaves)
ConfirmYesNo ==
  /\ pc = "confirm"
  /\ ~args.yes
  /\ prompted' = TRUE
  /\ \E a \in {"Yes", "No"} :
       /\ ans' = a
       /\ confirm' = (a = "Yes")
  /\ AfterConfirm(confirm')
  /\ UNCHANGED <<dir, pathStatus, dir0, args, dirStatus, fileNameSelf, arrFileInfo, arrMatch,
                 allMatch, selection, presented, arrAns, hasErr, attempted, failed,
                 err, exitCode>>

\* the prompt answered Pick, then the multi-select
ConfirmPickFiles ==
  /\ pc = "confirm"
  /\ ~args.yes
  /\ prompted' = TRUE
  /\ ans' = "Pick"
  /\ \E answers \in MultiSelectAnswers(ArrSel(arrMatch)) :
       /\ arrAns' = answers
       /\ arrMatch' = PickSet(arrMatch, answers)
  /\ confirm' = ConfirmPick(arrMatch')
  /\ AfterConfirm(confirm')
  /\ UNCHANGED <<dir, pathStatus, dir0, args, dirStatus, fileNameSelf, arrFileInfo, allMatch,
                 selection, presented, hasErr, attempted, failed, err, exitCode>>

\* one iteration of the removal loop
Remove ==
  /\ pc = "remove"
  /\ idx <= Len(arrMatch)
  /\ LET nm == arrMatch[idx].name
     IN /\ attempted' = Append(attempted, nm)
        /\ \E ok \in BOOLEAN :
             /\ dir' = IF ok THEN RemoveEntry(dir, nm) ELSE dir
             /\ failed' = IF ok THEN failed ELSE failed \cup {nm}
             /\ hasErr' = (hasErr \/ ~ok)
             /\ idx' = NextIdx(idx, ok, Len(arrMatch))
  /\ UNCHANGED <<pathStatus, dir0, args, pc, dirStatus, fileNameSelf, arrFileInfo, arrMatch,
                 allMatch, selection, presented, prompted, ans, arrAns, confirm, msg,
                 err, exitCode>>

\* after the loop
Report ==
  /\ pc = "remove"
  /\ idx > Len(arrMatch)
  /\ IF hasErr
     THEN err' = "Failed to delete some files" /\ msg' = msg
     ELSE err' = err /\ msg' = "Finished deleting above files"
  /\ pc' = "exit"
  /\ UNCHANGED <<dir, pathStatus, dir0, args, dirStatus, fileNameSelf, arrFileInfo, arrMatch,
                 allMatch, selection, presented, prompted, ans, arrAns, confirm, idx,
                 hasErr, attempted, failed, exitCode>>

\* main: log.Fatal on an error, status 0 otherwise
Exit ==
  /\ pc = "exit"
  /\ exitCode' = IF err # NoErr THEN 1 ELSE 0
  /\ pc' = "done"
  /\ UNCHANGED <<dir, pathStatus, dir0, args, dirStatus, fileNameSelf, arrFileInfo, arrMatch,
                 allMatch, selection, presented, prompted, ans, arrAns, confirm, idx,
                 hasErr, attempted, failed, msg, err>>

Next ==
  \/ Compile
  \/ List
  \/ Filter
  \/ Select
  \/ Present
  \/ ConfirmYesFlag
  \/ ConfirmYesNo
  \/ ConfirmPickFiles
  \/ Remove
  \/ Report
  \/ Exit

Spec == Init /\ [][Next]_vars

(***************************************************************************)
(* Properties.                                                             *)
(***************************************************************************)
Range(s) == {s[i] : i \in DOMAIN s}

Sorted(s) == \A i \in 1..(Len(s) - 1) : s[i].mtime <= s[i + 1].mtime

IsSubseq(s, t) ==
  \E f \in [DOMAIN s -> DOMAIN t] :
    /\ \A i \in DOMAIN s : t[f[i]] = s[i]
    /\ \A i, j \in DOMAIN s : i < j => f[i] < f[j]

KeptMsg == "All matching files will be kept due to given number flag"

\* the lister returned a list
Listed == dirStatus = "ok"
\* the pattern filter has run
Filtered == Listed /\ pc # "filter"
\* the count selector has run
SelectorRan == Filtered /\ allMatch # <<>> /\ pc # "select"
\* the count selector handed a selection on
Selected == pc = "present" \/ presented
\* the run is over, or has not set a failing status
NoFailure == err = NoErr /\ exitCode \in {-1, 0}
\* names of the entries of dir0 no longer in dir
Removed == {dir0[i].name : i \in DOMAIN dir0} \ {dir[i].name : i \in DOMAIN dir}

C2_DropLastN ==
  (SelectorRan /\ args.number < 0) =>
    IF Len(allMatch) > -args.number
    THEN /\ Selected
         /\ selection = SubSeq(allMatch, 1, Len(allMatch) + args.number)
    ELSE /\ msg = KeptMsg
         /\ selection = <<>>
         /\ ~presented /\ ~prompted /\ attempted = <<>>
         /\ pc \in {"exit", "done"}
         /\ NoFailure

\* C3: an entry named like the base name of the program's own executable is
\* never in the match set, the selection or the delete set, and os.Remove is
\* never called on it.
C3_SelfExcluded ==
  LET self == PathBase(args.argv0)
  IN /\ self \notin NameSet(allMatch)
     /\ self \notin NameSet(selection)
     /\ self \notin NameSet(arrMatch)
     /\ self \notin Range(attempted)
     /\ self \notin Removed

C3_Witness ==
  /\ pc = "done"
  /\ attempted # <<>>
  /\ \E i \in DOMAIN arrFileInfo :
       /\ arrFileInfo[i].name = PathBase(args.argv0)
       /\ arrFileInfo[i].name \in args.pattern.lang

\* C4: with --dry-run no removal is attempted and no prompt is shown, whatever
\* --yes says; the directory is as before the run, so listing, filtering and
\* selecting again after the run gives the same selection.
C4_DryRun ==
  args.dryRun =>
    /\ attempted = <<>>
    /\ ~prompted
    /\ pc \notin {"confirm", "remove"}
    /\ dir = dir0
    /\ (pc = "done" /\ presented) =>
         /\ exitCode = 0
         /\ CountSelect(FilterMatch(ListByTime(dir), args.pattern, PathBase(args.argv0)),
                        args.number).arr = selection

C4_Witness ==
  /\ args.dryRun /\ args.yes
  /\ pc = "done"
  /\ presented
  /\ Len(selection) > 0

\* C5: at the prompt, Pick with nothing checked ends like No: "Aborted", no
\* removal attempted, no error.  Pick with a non-empty checked subset makes
\* exactly that subset the delete set.
C5_PickEmptyIsNo ==
  /\ (prompted /\ (ans = "No" \/ (ans = "Pick" /\ arrAns = <<>>))) =>
       /\ ~confirm
       /\ msg = "Aborted"
       /\ attempted = <<>>
       /\ dir = dir0
       /\ pc \in {"exit", "done"}
       /\ NoFailure
  /\ (prompted /\ ans = "Pick" /\ arrAns # <<>>) =>
       /\ confirm
       /\ NamesOf(arrMatch) = arrAns
       /\ pc \in {"exit", "done"} => attempted = arrAns

C5_Witness ==
  /\ prompted /\ ans = "Pick" /\ arrAns = <<>>
  /\ Len(selection) > 0
  /\ pc = "done"

\* C6: os.Remove is called on every file of the confirmed set exactly once, in
\* order, whatever failed before; the run fails exactly when a removal failed,
\* and reports success otherwise.
C6_BestEffortBatch ==
  /\ Cardinality(Range(attempted)) = Len(attempted)
  /\ failed \subseteq Range(attempted)
  /\ pc = "remove" => attempted = SubSeq(NamesOf(arrMatch), 1, idx - 1)
  /\ (confirm /\ pc \in {"exit", "done"}) =>
       /\ attempted = NamesOf(arrMatch)
       /\ Removed = Range(attempted) \ failed
       /\ (err # NoErr) <=> (failed # {})
       /\ failed = {} => msg = "Finished deleting above files"
       /\ pc = "done" => ((exitCode # 0) <=> (failed # {}))

C6_Witness ==
  /\ pc = "done"
  /\ Len(attempted) >= 2
  /\ attempted[1] \in failed
  /\ attempted[2] \notin failed

\* C7: the run ends with a non-zero status exactly when the pattern does not
\* compile, the path is not a directory or cannot be opened or read, or a
\* removal failed; a pattern that does not compile ends the run before listing.
C7_ExitStatus ==
  pc = "done" =>
    /\ (exitCode # 0) <=>
         \/ ~args.pattern.ok
         \/ dirStatus \in {"openfail", "statfail", "notdir", "readfail"}
         \/ failed # {}
    /\ ~args.pattern.ok => dirStatus = "unknown"

\* C8: on success the lister returns every non-directory entry of the
\* directory, no directory, ordered by non-decreasing modification time.
C8_ListsAllFiles ==
  Listed =>
    /\ NameSet(arrFileInfo) = {dir0[i].name : i \in {j \in DOMAIN dir0 : dir0[j].kind # "dir"}}
    /\ Cardinality(NameSet(arrFileInfo)) = Len(arrFileInfo)
    /\ Sorted(arrFileInfo)

C10_OnlySelectionRemoved ==
  /\ Range(attempted) \subseteq NameSet(selection)
  /\ Removed \subseteq NameSet(selection)
  /\ NameSet(arrMatch) \subseteq NameSet(allMatch)
  /\ args.number < 0 =>
       \A i \in DOMAIN allMatch :
         i > Len(allMatch) + args.number =>
           /\ allMatch[i].name \notin Range(attempted)
           /\ allMatch[i].name \notin Removed
  /\ args.number > 0 => Len(attempted) <= args.number

C10_Witness ==
  /\ args.number < 0
  /\ prompted /\ ans = "Pick"
  /\ Removed # {}
  /\ pc = "done"

====
